---- MODULE Spec2Model ----
(***************************************************************************)
(* Image-Protector-App (src/main.py): the LSB steganography codec          *)
(* (xor_cipher, bytes_to_bits, bits_to_bytes, stego_hide, stego_extract,   *)
(* clean_lsb) and the two entry points that drive it (main,                *)
(* interactive_mode).                                                      *)
(*                                                                         *)
(* A Python str is a sequence of Unicode code points, a bytes object a     *)
(* sequence of numbers 0..255, a list of bits a sequence of 0/1.  An image *)
(* is a record [w, h, rows]: rows[y + 1][x + 1] is the <<r, g, b>> pixel   *)
(* that PIL's pixels[x, y] names (x the column, y the row, origin top      *)
(* left), as Image.open(path).convert('RGB') yields it.                    *)
(***************************************************************************)
EXTENDS Integers, Sequences, FiniteSets, TLC

VARIABLES
    \* SpecCodec: a value passed through the pure codec functions
    orig,       \* the value the run started from
    val,        \* the current value: [kind |-> "bytes" | "bits", v |-> sequence]
    hist,       \* the calls applied so far, oldest first
    \* Spec: the image files and the last calls of the steganography functions
    fs,         \* file system: path -> image record, or NoFile
    op,         \* the last call: its arguments, locals, outcome
    made,       \* how each file came to be: path -> the call that saved it
    \* SpecMain: control state of main() / interactive_mode()
    mode,       \* "cli" | "interactive"
    pc,         \* "start" | "menu" | "batch" | "single" | "exited"
    cmd,        \* the command being run
    tasks,      \* the task list get_files_list returned
    pos,        \* position of the batch loop in tasks (1-based, next to run)
    attempted,  \* indices of tasks whose processing function was called
    written,    \* indices of tasks whose output was saved
    reported,   \* error reports printed: sequence of records
    exitStatus  \* process exit status once pc = "exited"

codecVars == <<orig, val, hist>>
fileVars == <<fs, op, made>>
mainVars == <<mode, pc, cmd, tasks, pos, attempted, written, reported, exitStatus>>
vars == <<orig, val, hist, fs, op, made,
          mode, pc, cmd, tasks, pos, attempted, written, reported, exitStatus>>

(***************************************************************************)
(* Bounds of the model.                                                    *)
(***************************************************************************)
MaxDataLen == 2     \* longest byte sequence SpecCodec starts from
MaxBitsLen == 9     \* longest bit sequence SpecCodec starts from
MaxCalls == 2       \* codec calls applied in one SpecCodec run
MaxFiles == 3       \* most entries of a directory given to a batch command

(***************************************************************************)
(* Generic helpers.                                                        *)
(***************************************************************************)
Min(a, b) == IF a <= b THEN a ELSE b

Pow2(n) == 2 ^ n

\* Concatenation of the sequences parts[lo..hi], by halving (depth log n).
RECURSIVE Concat(_, _, _)
Concat(parts, lo, hi) ==
    IF lo > hi THEN << >>
    ELSE IF lo = hi THEN parts[lo]
    ELSE LET mid == (lo + hi) \div 2
         IN Concat(parts, lo, mid) \o Concat(parts, mid + 1, hi)

\* A for loop, `for i in range(lo, hi + 1): st = Body(st, i)`: the iterations
\* run in order, the first half of the range and then the second (the
\* evaluation nests log(hi - lo) deep instead of hi - lo).  A `break` is a
\* flag in st that makes the remaining iterations do nothing.  The loop state
\* is a record; the test on DOMAIN half only makes the first half be evaluated
\* before the second starts.
RECURSIVE ForLoop(_, _, _, _)
ForLoop(Body(_, _), st, lo, hi) ==
    IF lo > hi THEN st
    ELSE IF lo = hi THEN Body(st, lo)
    ELSE LET mid == (lo + hi) \div 2
             half == ForLoop(Body, st, lo, mid)
         IN IF DOMAIN half = {} THEN half ELSE ForLoop(Body, half, mid + 1, hi)

\* Python's a ^ b on two bytes.
RECURSIVE XorByte(_, _)
XorByte(a, b) ==
    IF a = 0 /\ b = 0 THEN 0
    ELSE (IF a % 2 = b % 2 THEN 0 ELSE 1) + 2 * XorByte(a \div 2, b \div 2)

(***************************************************************************)
(* str.encode('utf-8') and bytes.decode('utf-8') (strict).                 *)
(***************************************************************************)
IsSurrogate(cp) == cp >= 55296 /\ cp <= 57343

EncodeCodePoint(cp) ==
    IF cp < 128 THEN <<cp>>
    ELSE IF cp < 2048 THEN <<192 + (cp \div 64), 128 + (cp % 64)>>
    ELSE IF cp < 65536
         THEN <<224 + (cp \div 4096), 128 + ((cp \div 64) % 64), 128 + (cp % 64)>>
    ELSE <<240 + (cp \div 262144), 128 + ((cp \div 4096) % 64),
           128 + ((cp \div 64) % 64), 128 + (cp % 64)>>

\* text.encode('utf-8'): defined for strings without lone surrogates
\* (UnicodeEncodeError otherwise).
Encodable(text) == \A i \in 1..Len(text) : ~IsSurrogate(text[i])

Utf8Encode(text) ==
    Concat([i \in 1..Len(text) |-> EncodeCodePoint(text[i])], 1, Len(text))

IsCont(b) == b >= 128 /\ b <= 191

\* Length of the well-formed UTF-8 sequence starting at b[i], 0 when there is none.
Utf8SeqLen(b, i) ==
    LET n == Len(b)
        b0 == b[i]
        b1 == IF i + 1 <= n THEN b[i + 1] ELSE 0
        b2 == IF i + 2 <= n THEN b[i + 2] ELSE 0
        b3 == IF i + 3 <= n THEN b[i + 3] ELSE 0
    IN  IF b0 < 128 THEN 1
        ELSE IF b0 >= 194 /\ b0 <= 223
             THEN IF IsCont(b1) THEN 2 ELSE 0
        ELSE IF b0 = 224
             THEN IF b1 >= 160 /\ b1 <= 191 /\ IsCont(b2) THEN 3 ELSE 0
        ELSE IF b0 = 237
             THEN IF b1 >= 128 /\ b1 <= 159 /\ IsCont(b2) THEN 3 ELSE 0
        ELSE IF b0 >= 225 /\ b0 <= 239
             THEN IF IsCont(b1) /\ IsCont(b2) THEN 3 ELSE 0
        ELSE IF b0 = 240
             THEN IF b1 >= 144 /\ b1 <= 191 /\ IsCont(b2) /\ IsCont(b3) THEN 4 ELSE 0
        ELSE IF b0 >= 241 /\ b0 <= 243
             THEN IF IsCont(b1) /\ IsCont(b2) /\ IsCont(b3) THEN 4 ELSE 0
        ELSE IF b0 = 244
             THEN IF b1 >= 128 /\ b1 <= 143 /\ IsCont(b2) /\ IsCont(b3) THEN 4 ELSE 0
        ELSE 0

DecodeCodePoint(b, i, n) ==
    IF n = 1 THEN b[i]
    ELSE IF n = 2 THEN (b[i] - 192) * 64 + (b[i + 1] - 128)
    ELSE IF n = 3
         THEN (b[i] - 224) * 4096 + (b[i + 1] - 128) * 64 + (b[i + 2] - 128)
    ELSE (b[i] - 240) * 262144 + (b[i + 1] - 128) * 4096
         + (b[i + 2] - 128) * 64 + (b[i + 3] - 128)

\* bytes.decode('utf-8'): [ok |-> TRUE, text |-> ...], or ok = FALSE where
\* Python raises UnicodeDecodeError.  The decoder walks the bytes in order:
\* st.next is the index of the next lead byte.
DecodeStep(b, st, i) ==
    IF ~st.ok \/ i # st.next THEN st
    ELSE LET n == Utf8SeqLen(b, i)
         IN IF n = 0 THEN [ok |-> FALSE, text |-> << >>, next |-> i]
            ELSE [ok |-> TRUE, text |-> Append(st.text, DecodeCodePoint(b, i, n)),
                  next |-> i + n]

Utf8Decode(b) ==
    LET end == ForLoop(LAMBDA st, i : DecodeStep(b, st, i),
                       [ok |-> TRUE, text |-> << >>, next |-> 1], 1, Len(b))
    IN [ok |-> end.ok, text |-> end.text]

(***************************************************************************)
(* xor_cipher, bytes_to_bits, bits_to_bytes (src/main.py 31-87).           *)
(***************************************************************************)
\* zip(data, cycle(key)): the key byte paired with data[i] (1-based i).
CycleKey(key, i) == key[((i - 1) % Len(key)) + 1]

\* Mutant: zip(data, key) without cycle() stops at the end of the key.
xor_cipher_no_cycle(data, password) ==
    IF password = << >> THEN data
    ELSE LET key == Utf8Encode(password)
         IN [i \in 1..Min(Len(data), Len(key)) |-> XorByte(data[i], key[i])] \o << >>

\* Mutant: every data byte is paired with the first key byte.
xor_cipher_first_key_byte(data, password) ==
    IF password = << >> THEN data
    ELSE LET key == Utf8Encode(password)
         IN [i \in 1..Len(data) |-> XorByte(data[i], key[1])] \o << >>

xor_cipher(data, password) ==
    IF password = << >> THEN data
    ELSE LET key == Utf8Encode(password)
         IN [i \in 1..Len(data) |-> XorByte(data[i], CycleKey(key, i))] \o << >>

\* Mutant: the digits least significant first.
Format08b_lsb_first(byte) == [j \in 1..8 |-> (byte \div Pow2(j - 1)) % 2]

\* format(byte, '08b'): the 8 binary digits of a byte, most significant first.
Format08b(byte) == [j \in 1..8 |-> (byte \div Pow2(8 - j)) % 2]

\* bits.extend(...) once per byte, in order
bytes_to_bits(data) ==
    Concat([k \in 1..Len(data) |-> Format08b(data[k])], 1, Len(data))

\* int(''.join(map(str, chunk)), 2)
RECURSIVE IntBase2(_)
IntBase2(chunk) ==
    IF chunk = << >> THEN 0
    ELSE 2 * IntBase2(SubSeq(chunk, 1, Len(chunk) - 1)) + chunk[Len(chunk)]

\* The loop of bits_to_bytes: i runs over range(0, len(bits), 8), the chunk is
\* bits[i:i + 8] (a slice, cut at the end of the list), and the loop breaks at
\* the first chunk shorter than 8.
ChunkStarts(bits) == {i \in 0..(Len(bits) - 1) : i % 8 = 0}

Chunk(bits, i) == SubSeq(bits, i + 1, Min(i + 8, Len(bits)))

bits_to_bytes(bits) ==
    LET short == {i \in ChunkStarts(bits) : Len(Chunk(bits, i)) < 8}
        done == {i \in ChunkStarts(bits) : \A s \in short : i < s}
    IN [c \in 1..Cardinality(done) |-> IntBase2(Chunk(bits, 8 * (c - 1)))] \o << >>

(***************************************************************************)
(* SpecCodec: the pure codec functions applied to values drawn from        *)
(* bounded sets.                                                           *)
(***************************************************************************)
Bytes == 0..255

\* '$', 0x7F/0x80 (the ASCII boundary), the extremes
SampleBytes == {0, 1, 36, 127, 128, 255}

SeqsUpTo(S, n) == UNION {[1..k -> S] : k \in 0..n}

CodecData == SeqsUpTo(SampleBytes, MaxDataLen) \cup [1..1 -> Bytes]

CodecBits == SeqsUpTo({0, 1}, MaxBitsLen)

\* passwords: "", "1", "12", "123", "é" (two key bytes)
CodecPasswords == {<< >>, <<49>>, <<49, 50>>, <<49, 50, 51>>, <<233>>}

NoVal == [kind |-> "none", v |-> << >>]

NoOp == [name |-> "none"]

InitCodec ==
    /\ val \in {[kind |-> "bytes", v |-> d] : d \in CodecData}
               \cup {[kind |-> "bits", v |-> b] : b \in CodecBits}
    /\ orig = val
    /\ hist = << >>
    /\ fs = << >> /\ made = << >> /\ op = NoOp
    /\ mode = "none" /\ pc = "none" /\ cmd = "none" /\ tasks = << >> /\ pos = 0
    /\ attempted = {} /\ written = {} /\ reported = << >> /\ exitStatus = 0

CallXorCipher(password) ==
    /\ val.kind = "bytes"
    /\ Len(hist) < MaxCalls
    /\ val' = [kind |-> "bytes", v |-> xor_cipher(val.v, password)]
    /\ hist' = Append(hist, [fn |-> "xor_cipher", arg |-> val.v, password |-> password])
    /\ UNCHANGED <<orig, fileVars, mainVars>>

CallBytesToBits ==
    /\ val.kind = "bytes"
    /\ Len(hist) < MaxCalls
    /\ val' = [kind |-> "bits", v |-> bytes_to_bits(val.v)]
    /\ hist' = Append(hist, [fn |-> "bytes_to_bits", arg |-> val.v, password |-> << >>])
    /\ UNCHANGED <<orig, fileVars, mainVars>>

CallBitsToBytes ==
    /\ val.kind = "bits"
    /\ Len(hist) < MaxCalls
    /\ val' = [kind |-> "bytes", v |-> bits_to_bytes(val.v)]
    /\ hist' = Append(hist, [fn |-> "bits_to_bytes", arg |-> val.v, password |-> << >>])
    /\ UNCHANGED <<orig, fileVars, mainVars>>

NextCodec ==
    \/ \E k \in CodecPasswords : CallXorCipher(k)
    \/ CallBytesToBits
    \/ CallBitsToBytes

SpecCodec == InitCodec /\ [][NextCodec]_vars

(***************************************************************************)
(* stego_hide, stego_extract, clean_lsb (src/main.py 208-320).             *)
(***************************************************************************)
\* b'$STOP$'
stop_marker == <<36, 83, 84, 79, 80, 36>>

max_bytes == 4096

max_bits == max_bytes * 8

\* 'Не найдено скрытых данных.'
NotFoundMsg ==
    <<1053, 1077, 32, 1085, 1072, 1081, 1076, 1077, 1085, 1086, 32, 1089, 1082,
      1088, 1099, 1090, 1099, 1093, 32, 1076, 1072, 1085, 1085, 1099, 1093, 46>>

\* 'Ошибка: Неправильный пароль или повреждённые данные.'
BadPasswordMsg ==
    <<1054, 1096, 1080, 1073, 1082, 1072, 58, 32, 1053, 1077, 1087, 1088, 1072,
      1074, 1080, 1083, 1100, 1085, 1099, 1081, 32, 1087, 1072, 1088, 1086, 1083,
      1100, 32, 1080, 1083, 1080, 32, 1087, 1086, 1074, 1088, 1077, 1078, 1076,
      1105, 1085, 1085, 1099, 1077, 32, 1076, 1072, 1085, 1085, 1099, 1077, 46>>

\* Mutant: b | bit, the old lowest bit is not cleared.
SetLsb_no_clear(b, bit) == IF b % 2 = 1 THEN b ELSE b + bit

\* (b & ~1) | bit
SetLsb(b, bit) == (b - (b % 2)) + bit

\* Mutant: the bit goes to the green channel.
HideBodyX_green(bits, st, x) ==
    IF st.brk THEN st
    ELSE IF st.idx < Len(bits)
         THEN LET p == st.row[x + 1]
                  new_g == SetLsb_no_clear(p[2] - (p[2] % 2), bits[st.idx + 1])
              IN [row |-> [st.row EXCEPT ![x + 1] = <<p[1], new_g, p[3]>>],
                  idx |-> st.idx + 1, brk |-> FALSE]
         ELSE [st EXCEPT !.brk = TRUE]

\* The body of the inner loop of stego_hide at pixel (x, y): st is
\* [row, idx, brk], the pixels of row y, the index of the next bit, and whether
\* the loop over x has hit its break.
HideBodyX(bits, st, x) ==
    IF st.brk THEN st
    ELSE IF st.idx < Len(bits)
         THEN LET p == st.row[x + 1]
                  new_b == SetLsb(p[3], bits[st.idx + 1])
              IN [row |-> [st.row EXCEPT ![x + 1] = <<p[1], p[2], new_b>>],
                  idx |-> st.idx + 1, brk |-> FALSE]
         ELSE [st EXCEPT !.brk = TRUE]

\* The body of the outer loop at row y: st is [rows, idx].
HideBodyY(bits, width, st, y) ==
    LET r == ForLoop(LAMBDA s, x : HideBodyX(bits, s, x),
                     [row |-> st.rows[y + 1], idx |-> st.idx, brk |-> FALSE],
                     0, width - 1)
    IN [rows |-> [st.rows EXCEPT ![y + 1] = r.row], idx |-> r.idx]

\* for y in range(height): for x in range(width): ...
HideLoop(img, bits) ==
    ForLoop(LAMBDA st, y : HideBodyY(bits, img.w, st, y),
            [rows |-> img.rows, idx |-> 0], 0, img.h - 1).rows

\* Mutant: >= for >.
CapacityExceeded_off_by_one(bits, width, height) == Len(bits) >= width * height

\* if len(bits) > width * height: raise ValueError
CapacityExceeded(bits, width, height) == Len(bits) > width * height

\* stego_hide from the opened image on: what is raised, and, when nothing is,
\* the image that img.save(output_path) writes.
stego_hide(img, secret_text, password) ==
    LET plain == Utf8Encode(secret_text)
        data_bytes == IF password # << >> THEN xor_cipher(plain, password) ELSE plain
        full_payload == data_bytes \o stop_marker
        bits == bytes_to_bits(full_payload)
    IN IF CapacityExceeded(bits, img.w, img.h)
       THEN [raised |-> "ValueError", saved |-> FALSE, img |-> img, nbits |-> Len(bits)]
       ELSE [raised |-> "none", saved |-> TRUE,
             img |-> [img EXCEPT !.rows = HideLoop(img, bits)],
             nbits |-> Len(bits)]

\* Mutant: the inner loop does not test bits_count.
ExtractBodyX_no_limit(row, st, x) ==
    [got |-> Append(st.got, row[x + 1][3] % 2),
     bits_count |-> st.bits_count + 1, brk |-> FALSE]

\* The body of the inner loop of stego_extract at pixel (x, y): st is
\* [got, bits_count, brk], got being the bits this row has appended to
\* extracted_bits so far.
ExtractBodyX(row, st, x) ==
    IF st.brk THEN st
    ELSE IF st.bits_count >= max_bits THEN [st EXCEPT !.brk = TRUE]
    ELSE [got |-> Append(st.got, row[x + 1][3] % 2),
          bits_count |-> st.bits_count + 1, brk |-> FALSE]

\* The body of the outer loop at row y: st is [extracted_bits, bits_count, brk].
ExtractBodyY(img, st, y) ==
    IF st.brk THEN st
    ELSE IF st.bits_count >= max_bits THEN [st EXCEPT !.brk = TRUE]
    ELSE LET r == ForLoop(LAMBDA s, x : ExtractBodyX(img.rows[y + 1], s, x),
                          [got |-> << >>, bits_count |-> st.bits_count, brk |-> FALSE],
                          0, img.w - 1)
         IN [extracted_bits |-> st.extracted_bits \o r.got,
             bits_count |-> r.bits_count, brk |-> FALSE]

ExtractLoop(img) ==
    ForLoop(LAMBDA st, y : ExtractBodyY(img, st, y),
            [extracted_bits |-> << >>, bits_count |-> 0, brk |-> FALSE],
            0, img.h - 1).extracted_bits

\* `stop_marker in raw_data`, and the index (0-based) of its first occurrence
MarkerAt(raw_data, i) == SubSeq(raw_data, i + 1, i + Len(stop_marker)) = stop_marker

MarkerPlaces(raw_data) ==
    {i \in 0..(Len(raw_data) - Len(stop_marker)) : MarkerAt(raw_data, i)}

SetMin(S) == CHOOSE m \in S : \A n \in S : m <= n

\* The part of stego_extract after the pixel loops (lines 285-297).
DecodeFrame(extracted_bits, password) ==
    LET raw_data == bits_to_bytes(extracted_bits)
        places == MarkerPlaces(raw_data)
    IN IF places # {}
       THEN LET found == SubSeq(raw_data, 1, SetMin(places))    \* split(...)[0]
                secret_bytes == IF password # << >> THEN xor_cipher(found, password)
                                                    ELSE found
                text == Utf8Decode(secret_bytes)
            IN IF text.ok THEN [branch |-> "text", ret |-> text.text]
                          ELSE [branch |-> "bad_password", ret |-> BadPasswordMsg]
       ELSE [branch |-> "not_found", ret |-> NotFoundMsg]

stego_extract(img, password) ==
    LET extracted_bits == ExtractLoop(img)
        r == DecodeFrame(extracted_bits, password)
    IN [branch |-> r.branch, ret |-> r.ret, extracted_bits |-> extracted_bits]

\* Mutant: the red channel is cleared instead of the blue one.
clean_lsb_red(img) ==
    [img EXCEPT !.rows =
        [y \in 1..img.h |-> [x \in 1..img.w |->
            LET p == img.rows[y][x] IN <<p[1] - (p[1] % 2), p[2], p[3]>>]]]

\* Mutant: the two lowest blue bits are cleared (b & ~3).
clean_lsb_low_two_bits(img) ==
    [img EXCEPT !.rows =
        [y \in 1..img.h |-> [x \in 1..img.w |->
            LET p == img.rows[y][x] IN <<p[1], p[2], p[3] - (p[3] % 4)>>]]]

\* clean_lsb: every pixel of every row gets (r, g, b & ~1).
clean_lsb(img) ==
    [img EXCEPT !.rows =
        [y \in 1..img.h |-> [x \in 1..img.w |->
            LET p == img.rows[y][x] IN <<p[1], p[2], p[3] - (p[3] % 2)>>]]]

(***************************************************************************)
(* Spec: the steganography functions called on image files.  The files are *)
(* PNG files (Image.save keeps every pixel); three paths are in play: the  *)
(* carrier image, the output of stego_hide and the output of clean_lsb.    *)
(***************************************************************************)
Paths == {"carrier.png", "stego.png", "clean.png"}

NoFile == [w |-> 0, h |-> 0, rows |-> << >>]

\* Pixel number i (row-major, from 0) of the two kinds of carrier: the plain
\* red image of the tests, and one whose channels vary from pixel to pixel.
PixelOf(kind, i) ==
    IF kind = "red" THEN <<255, 0, 0>>
    ELSE <<(7 * i + 3) % 256, (13 * i + 1) % 256, (5 * i + (i \div 3)) % 256>>

MakeImage(w, h, kind) ==
    [w |-> w, h |-> h,
     rows |-> [y \in 1..h |-> [x \in 1..w |-> PixelOf(kind, (y - 1) * w + (x - 1))]]]

Repeat(cp, n) == [i \in 1..n |-> cp] \o << >>

\* The secrets: '', 'A', 'Я€' (two and three bytes in UTF-8), '$STOP' (the
\* marker less its last byte), '\x15be~a\x15' (which is '$STOP$' under the
\* password '1'), the text stego_extract returns when it finds nothing, and
\* 'A' * 4090 and 'A' * 4091 (a frame of max_bytes bytes, and one byte more).
SecretEmpty == << >>
SecretA == <<65>>
SecretMulti == <<1071, 8364>>
SecretStop == <<36, 83, 84, 79, 80>>
SecretXorStop == <<21, 98, 101, 126, 97, 21>>
SecretLongFit == Repeat(65, max_bytes - Len(stop_marker))
SecretLong == Repeat(65, max_bytes - Len(stop_marker) + 1)

\* passwords '', '1', '12'
Passwords == {<< >>, <<49>>, <<49, 50>>}

\* The carriers, each with the secrets and passwords stego_hide is called with
\* on it, and whether clean_lsb is called in its runs.
Scenarios ==
    { [img |-> MakeImage(47, 1, "red"), secrets |-> {SecretEmpty, SecretA},
       passwords |-> Passwords, clean |-> TRUE],
      [img |-> MakeImage(8, 6, "mixed"), secrets |-> {SecretEmpty, SecretA},
       passwords |-> Passwords, clean |-> TRUE],
      [img |-> MakeImage(7, 8, "red"), secrets |-> {SecretEmpty, SecretA},
       passwords |-> Passwords, clean |-> TRUE],
      [img |-> MakeImage(10, 10, "mixed"),
       secrets |-> {SecretMulti, SecretStop, SecretXorStop},
       passwords |-> Passwords, clean |-> TRUE],
      [img |-> MakeImage(24, 18, "red"), secrets |-> {NotFoundMsg},
       passwords |-> {<< >>, <<49>>}, clean |-> TRUE],
      [img |-> MakeImage(182, 181, "mixed"), secrets |-> {SecretLongFit, SecretLong},
       passwords |-> {<< >>}, clean |-> FALSE] }

Given == [by |-> "given", hidden |-> FALSE]

Absent == [by |-> "nobody", hidden |-> FALSE]

Init ==
    /\ \E sc \in Scenarios :
        /\ fs = [p \in Paths |-> IF p = "carrier.png" THEN sc.img ELSE NoFile]
        /\ made = [p \in Paths |-> IF p = "carrier.png"
                                   THEN [by |-> "given", hidden |-> FALSE,
                                         secrets |-> sc.secrets,
                                         passwords |-> sc.passwords,
                                         clean |-> sc.clean]
                                   ELSE Absent]
    /\ op = NoOp
    /\ orig = NoVal /\ val = NoVal /\ hist = << >>
    /\ mode = "none" /\ pc = "none" /\ cmd = "none" /\ tasks = << >> /\ pos = 0
    /\ attempted = {} /\ written = {} /\ reported = << >> /\ exitStatus = 0

\* stego_hide("carrier.png", "stego.png", secret_text, password)
Hide(secret_text, password) ==
    LET input == "carrier.png"
        output == "stego.png"
        r == stego_hide(fs[input], secret_text, password)
    IN /\ secret_text \in made[input].secrets
       /\ password \in made[input].passwords
       /\ op' = [name |-> "stego_hide", input |-> input, output |-> output,
                 secret_text |-> secret_text, password |-> password,
                 raised |-> r.raised, nbits |-> r.nbits,
                 mutated |-> r.img # fs[input]]
       /\ IF r.saved
          THEN /\ fs' = [fs EXCEPT ![output] = r.img]
               /\ made' = [made EXCEPT ![output] =
                              [by |-> "stego_hide", hidden |-> TRUE,
                               secret_text |-> secret_text, password |-> password]]
          ELSE UNCHANGED <<fs, made>>
       /\ UNCHANGED <<codecVars, mainVars>>

\* stego_extract(input, password)
Extract(input, password) ==
    LET r == stego_extract(fs[input], password)
    IN /\ fs[input] # NoFile
       /\ password \in made["carrier.png"].passwords
       /\ op' = [name |-> "stego_extract", input |-> input, password |-> password,
                 branch |-> r.branch, ret |-> r.ret,
                 extracted_bits |-> r.extracted_bits]
       /\ UNCHANGED <<fs, made, codecVars, mainVars>>

\* clean_lsb(input, "clean.png")
Clean(input) ==
    LET output == "clean.png"
    IN /\ input \in {"stego.png", "clean.png"}
       /\ fs[input] # NoFile
       /\ made["carrier.png"].clean
       /\ op' = [name |-> "clean_lsb", input |-> input, output |-> output]
       /\ fs' = [fs EXCEPT ![output] = clean_lsb(fs[input])]
       /\ made' = [made EXCEPT ![output] =
                      [by |-> "clean_lsb", hidden |-> made[input].hidden]]
       /\ UNCHANGED <<codecVars, mainVars>>

Next ==
    \/ \E s \in made["carrier.png"].secrets, k \in made["carrier.png"].passwords : Hide(s, k)
    \/ \E p \in Paths, k \in made["carrier.png"].passwords : Extract(p, k)
    \/ \E p \in Paths : Clean(p)

Spec == Init /\ [][Next]_vars

(***************************************************************************)
(* Properties of stego_hide, stego_extract and clean_lsb (Spec).           *)
(***************************************************************************)
\* The bytes stego_hide frames for a secret and a password, and their bits.
Payload(secret_text, password) == xor_cipher(Utf8Encode(secret_text), password)

Frame(secret_text, password) == Payload(secret_text, password) \o stop_marker

\* Pixel number i of an image, counting row by row from the top left, from 0.
PixelAt(img, i) == img.rows[(i \div img.w) + 1][(i % img.w) + 1]

NumPixels(img) == img.w * img.h

\* The last call was stego_extract on the file stego_hide saved.
ExtractedStego == op.name = "stego_extract" /\ op.input = "stego.png"

Hidden == made["stego.png"]

\* The marker first occurs in the frame where stego_hide appended it, and the
\* frame fits the max_bytes that stego_extract reads.
FrameIsClean(secret_text, password) ==
    /\ SetMin(MarkerPlaces(Frame(secret_text, password)))
          = Len(Payload(secret_text, password))
    /\ Len(Frame(secret_text, password)) <= max_bytes

\* C1 as claimed: whenever stego_hide succeeded with secret s and key k,
\* stego_extract with key k on its output returns s.
C1_HideExtractSymmetry ==
    (ExtractedStego /\ op.password = Hidden.password) =>
        op.ret = Hidden.secret_text

\* C1 amended: ... provided the frame (ciphered secret plus marker) is at
\* most max_bytes long and holds the marker nowhere before its end.
C1_HideExtractSymmetryAmended ==
    (/\ ExtractedStego
     /\ op.password = Hidden.password
     /\ FrameIsClean(Hidden.secret_text, Hidden.password)) =>
        /\ op.branch = "text"
        /\ op.ret = Hidden.secret_text

\* C1 witness: a secret of multi-byte characters hidden and extracted under
\* the password '12'.
C1_Witness ==
    /\ ExtractedStego
    /\ Hidden.secret_text = SecretMulti
    /\ Hidden.password = <<49, 50>>
    /\ op.password = <<49, 50>>
    /\ op.ret = SecretMulti

\* C2: capacity boundary.  A call of stego_hide frames 8 * (payload bytes + 6)
\* bits; when they are at most W * H the call raises nothing and saves the
\* output; when they are more, be it by one bit, it raises ValueError with no
\* pixel modified and no file written.
C2_CapacityBoundary ==
    [][op'.name = "stego_hide" =>
         LET img == fs[op'.input]
         IN /\ op'.nbits = 8 * (Len(Payload(op'.secret_text, op'.password)) + 6)
            /\ op'.nbits <= NumPixels(img) =>
                  /\ op'.raised = "none"
                  /\ fs'[op'.output] # NoFile
                  /\ made'[op'.output].secret_text = op'.secret_text
            /\ op'.nbits > NumPixels(img) =>
                  /\ op'.raised = "ValueError"
                  /\ ~op'.mutated
                  /\ fs' = fs]_vars

\* C2 witness: a frame one bit longer than the carrier has pixels, refused
\* with nothing saved.
C2_Witness ==
    /\ op.name = "stego_hide"
    /\ op.nbits = NumPixels(fs[op.input]) + 1
    /\ op.raised = "ValueError"
    /\ fs["stego.png"] = NoFile

\* Byte i of a key repeated cyclically, the empty key being all zeros.
KeyByteAt(password, i) ==
    IF password = << >> THEN 0
    ELSE LET key == Utf8Encode(password) IN key[((i - 1) % Len(key)) + 1]

KeysDiffer(k1, k2, n) == \E i \in 1..n : KeyByteAt(k1, i) # KeyByteAt(k2, i)

\* C3 as claimed: extracting with a key other than the one used to hide gives
\* the wrong-password result or a text that is not the secret.
C3_WrongKey ==
    (ExtractedStego /\ op.password # Hidden.password) =>
        \/ op.branch = "bad_password"
        \/ op.branch = "text" /\ op.ret # Hidden.secret_text

\* C3 amended: extracting with another key gives the wrong-password result,
\* a decoded text, or (only when the frame is longer than max_bytes) the
\* nothing-found result; the text is not the secret whenever the two keys,
\* repeated cyclically, differ within the byte length of the secret.
C3_WrongKeyAmended ==
    (ExtractedStego /\ op.password # Hidden.password) =>
        /\ op.branch \in {"bad_password", "text", "not_found"}
        /\ op.branch = "not_found" =>
              Len(Frame(Hidden.secret_text, Hidden.password)) > max_bytes
        /\ op.branch = "bad_password" => op.ret = BadPasswordMsg
        /\ (/\ op.branch = "text"
            /\ KeysDiffer(op.password, Hidden.password,
                          Len(Utf8Encode(Hidden.secret_text)))) =>
              op.ret # Hidden.secret_text

\* C3 witness: 'A' hidden under '1' and extracted without password decodes
\* to another text.
C3_Witness ==
    /\ ExtractedStego
    /\ Hidden.secret_text = SecretA /\ Hidden.password = <<49>>
    /\ op.password = << >>
    /\ op.branch = "text"
    /\ op.ret = <<112>>

C8_VariantsDistinguishable ==
    (ExtractedStego /\ op.password = Hidden.password /\ op.branch = "text") =>
        op.ret \notin {NotFoundMsg, BadPasswordMsg}

\* C9: embed frame effect.  After a successful stego_hide of n bits, pixel i
\* of the output (row by row) has for i < n the blue channel of the carrier
\* with its lowest bit replaced by bit i, and red and green unchanged; the
\* pixels from n on are those of the carrier.
C9_EmbedFrameEffect ==
    (op.name = "stego_hide" /\ op.raised = "none") =>
        LET before == fs[op.input]
            after == fs[op.output]
            bits == bytes_to_bits(Frame(op.secret_text, op.password))
        IN /\ after.w = before.w /\ after.h = before.h
           /\ op.nbits = Len(bits)
           /\ \A i \in 0..(NumPixels(before) - 1) :
                 LET p == PixelAt(before, i)
                     q == PixelAt(after, i)
                 IN IF i < op.nbits
                    THEN /\ q[1] = p[1] /\ q[2] = p[2]
                         /\ q[3] % 2 = bits[i + 1]
                         /\ q[3] \div 2 = p[3] \div 2
                    ELSE q = p

\* C9 witness: 88 bits hidden in a 10 x 10 carrier, some blue bits raised,
\* some lowered, and pixel 88 (the first one past the bits, its blue odd) left
\* alone.
C9_Witness ==
    /\ op.name = "stego_hide" /\ op.raised = "none"
    /\ op.nbits = 88 /\ NumPixels(fs[op.input]) = 100
    /\ \E i \in 0..87 : PixelAt(fs[op.output], i)[3] = PixelAt(fs[op.input], i)[3] + 1
    /\ \E i \in 0..87 : PixelAt(fs[op.output], i)[3] = PixelAt(fs[op.input], i)[3] - 1
    /\ PixelAt(fs[op.input], 88)[3] % 2 = 1
    /\ PixelAt(fs[op.output], 88) = PixelAt(fs[op.input], 88)

\* The image with the blue channel of pixel i changed by f.
WithBlue(img, i, f(_)) ==
    LET p == PixelAt(img, i)
    IN [img EXCEPT !.rows[(i \div img.w) + 1][(i % img.w) + 1] = <<p[1], p[2], f(p[3])>>]

\* Images that agree with img on the bits stego_extract reads (the lowest blue
\* bits of the first n pixels) and differ elsewhere: in red and green, in the
\* higher blue bits, and in the lowest blue bit of a pixel after the n-th.
SameBitsAs(img, n) ==
    { [img EXCEPT !.rows[1][1] =
          <<(img.rows[1][1][1] + 1) % 256, (img.rows[1][1][2] + 255) % 256,
            img.rows[1][1][3]>>],
      WithBlue(img, n - 1, LAMBDA b : (b + 2) % 256) }
    \cup (IF n < NumPixels(img)
          THEN { WithBlue(img, n, LAMBDA b : IF b % 2 = 0 THEN b + 1 ELSE b - 1),
                 WithBlue(img, NumPixels(img) - 1,
                          LAMBDA b : IF b % 2 = 0 THEN b + 1 ELSE b - 1) }
          ELSE {})

\* C10: bounded recovery.  stego_extract collects min(W * H, max_bytes * 8)
\* bits, bit i the lowest blue bit of pixel i (row by row), and returns the
\* same for every image that agrees on those bits.
C10_BoundedRecovery ==
    op.name = "stego_extract" =>
        LET img == fs[op.input]
            n == Min(NumPixels(img), max_bytes * 8)
        IN /\ Len(op.extracted_bits) = n
           /\ \A i \in 0..(n - 1) : op.extracted_bits[i + 1] = PixelAt(img, i)[3] % 2
           /\ \A other \in SameBitsAs(img, n) :
                 LET r == stego_extract(other, op.password)
                 IN r.branch = op.branch /\ r.ret = op.ret

\* C10 witness: an image of more than max_bytes * 8 pixels, of which
\* stego_extract read max_bytes * 8 and found the text hidden in them.
C10_Witness ==
    /\ ExtractedStego
    /\ NumPixels(fs[op.input]) > max_bytes * 8
    /\ Len(op.extracted_bits) = max_bytes * 8
    /\ op.branch = "text"
    /\ op.ret = SecretLongFit

\* C11: clear effect and idempotence.  Every call of clean_lsb writes an image
\* of the size of its input in which each pixel has red and green as in the
\* input, the lowest blue bit 0 and the other seven blue bits as in the input;
\* clearing that output again gives the same image, so a call of clean_lsb on
\* a file clean_lsb wrote leaves the pixels as they are.
C11_ClearEffectIdempotent ==
    [][op'.name = "clean_lsb" =>
          LET before == fs[op'.input]
              after == fs'[op'.output]
          IN /\ after.w = before.w /\ after.h = before.h
             /\ \A i \in 0..(NumPixels(before) - 1) :
                   LET p == PixelAt(before, i)
                       q == PixelAt(after, i)
                   IN /\ q[1] = p[1] /\ q[2] = p[2]
                      /\ q[3] % 2 = 0
                      /\ q[3] \div 2 = p[3] \div 2
             /\ clean_lsb(after) = after
             /\ made[op'.input].by = "clean_lsb" => after = before]_vars

\* C11 witness: clean_lsb was run on its own output, the cleared copy of a
\* 10 x 10 stego image; the stego image had set and unset lowest blue bits and
\* blue bytes with higher bits set, the cleared one has no lowest blue bit set.
C11_Witness ==
    /\ op.name = "clean_lsb" /\ op.input = "clean.png"
    /\ made["clean.png"].by = "clean_lsb" /\ made["clean.png"].hidden
    /\ NumPixels(fs["stego.png"]) = 100
    /\ \E i \in 0..99 : PixelAt(fs["stego.png"], i)[3] % 2 = 1
    /\ \E i \in 0..99 : PixelAt(fs["stego.png"], i)[3] % 2 = 0
    /\ \E i \in 0..99 : /\ PixelAt(fs["stego.png"], i)[3] % 4 = 3
                        /\ PixelAt(fs["clean.png"], i)[3] % 4 = 2
    /\ \A i \in 0..99 : PixelAt(fs["clean.png"], i)[3] % 2 = 0
    /\ fs["clean.png"] # fs["stego.png"]

(***************************************************************************)
(* SpecMain: main() and interactive_mode() (src/main.py 323-495).  A file  *)
(* is a record [ext, img]: its extension and the image Image.open reads    *)
(* from it, NoFile when Image.open raises (missing or corrupt file).       *)
(***************************************************************************)
BatchCommands == {"text", "qr", "clean"}

SingleCommands == {"hide", "extract"}

SmallImage == MakeImage(8, 6, "red")

TinyImage == MakeImage(47, 1, "red")

Files == [ext : {"png", "txt"}, img : {NoFile, SmallImage}]

\* what `input` names: a directory with its os.listdir(), or one file
Inputs ==
    {[isdir |-> TRUE, entries |-> e, file |-> [ext |-> "", img |-> NoFile]] :
        e \in SeqsUpTo(Files, MaxFiles)}
    \cup {[isdir |-> FALSE, entries |-> << >>, file |-> f] :
            f \in Files \cup {[ext |-> "png", img |-> TinyImage]}}

IsImageName(f) == f.ext \in {"png", "jpg", "jpeg"}

\* get_files_list: the image files of a directory in listing order, or the
\* one file given
get_files_list(input) ==
    IF input.isdir THEN SelectSeq(input.entries, IsImageName)
    ELSE <<input.file>>

\* add_watermark / add_qr: the opacity check, then Image.open
OverlayRaises(f, opacity) == ~(0 <= opacity /\ opacity <= 255) \/ f.img = NoFile

\* Whether the function a command calls on file f raises.
Raises(c, f) ==
    IF c.name \in {"text", "qr"} THEN OverlayRaises(f, c.opacity)
    ELSE IF c.name = "clean" THEN f.img = NoFile
    ELSE IF c.name = "hide"
         THEN f.img = NoFile \/ stego_hide(f.img, SecretEmpty, << >>).raised # "none"
    ELSE f.img = NoFile     \* extract

Commands ==
    [name : {"text", "qr"}, opacity : {128, 300}]
    \cup [name : {"clean", "hide", "extract"}, opacity : {0}]

NoCommand == [name |-> "none", opacity |-> 0]

InitMain ==
    /\ mode \in {"cli", "interactive"}
    /\ pc = IF mode = "cli" THEN "start" ELSE "menu"
    /\ cmd = NoCommand /\ tasks = << >> /\ pos = 0
    /\ attempted = {} /\ written = {} /\ reported = << >> /\ exitStatus = 0
    /\ orig = NoVal /\ val = NoVal /\ hist = << >>
    /\ fs = << >> /\ made = << >> /\ op = NoOp

\* main() with a subcommand parsed (lines 461-466, 480-484), or a menu choice
\* of interactive_mode with its inputs read (lines 344-401).
Dispatch(c, input) ==
    /\ \/ mode = "cli" /\ pc = "start"
       \/ mode = "interactive" /\ pc = "menu"
    /\ cmd' = c
    /\ attempted' = {} /\ written' = {} /\ reported' = << >>
    /\ IF c.name \in BatchCommands
       THEN /\ tasks' = get_files_list(input)
            /\ pos' = 1
            /\ pc' = "batch"
       ELSE /\ tasks' = <<input.file>>
            /\ pos' = 1
            /\ pc' = "single"
    /\ \/ c.name \in BatchCommands
       \/ ~input.isdir
    /\ UNCHANGED <<mode, exitStatus, codecVars, fileVars>>

\* One iteration of `for in_path, out_path in tasks` (lines 467-478 of main,
\* 372-373 / 386-387 / 400-401 of interactive_mode).
BatchStep ==
    /\ pc = "batch"
    /\ pos <= Len(tasks)
    /\ attempted' = attempted \cup {pos}
    /\ IF Raises(cmd, tasks[pos])
       THEN IF mode = "cli"
            THEN \* except Exception as e: print('Ошибка с файлом', ...)
                 /\ reported' = Append(reported, [what |-> "file", task |-> pos])
                 /\ pos' = pos + 1
                 /\ UNCHANGED <<pc, written>>
            ELSE \* the exception leaves the for loop: line 409
                 /\ reported' = Append(reported, [what |-> "error", task |-> pos])
                 /\ pc' = "menu"
                 /\ UNCHANGED <<pos, written>>
       ELSE /\ written' = written \cup {pos}
            /\ pos' = pos + 1
            /\ UNCHANGED <<pc, reported>>
    /\ UNCHANGED <<mode, cmd, tasks, exitStatus, codecVars, fileVars>>

\* The for loop is over.
BatchEnd ==
    /\ pc = "batch"
    /\ pos > Len(tasks)
    /\ pc' = IF mode = "cli" THEN "exited" ELSE "menu"
    /\ UNCHANGED <<mode, cmd, tasks, pos, attempted, written, reported, exitStatus,
                   codecVars, fileVars>>

\* stego_hide / stego_extract on the one file (lines 480-485, 389-396).
SingleStep ==
    /\ pc = "single"
    /\ attempted' = {1}
    /\ IF Raises(cmd, tasks[1])
       THEN /\ reported' = Append(reported,
                [what |-> IF mode = "cli" THEN "critical" ELSE "error", task |-> 1])
            /\ pc' = IF mode = "cli" THEN "exited" ELSE "menu"
            /\ exitStatus' = IF mode = "cli" THEN 1 ELSE exitStatus   \* sys.exit(1)
            /\ UNCHANGED written
       ELSE /\ written' = IF cmd.name = "hide" THEN {1} ELSE {}
            /\ pc' = IF mode = "cli" THEN "exited" ELSE "menu"
            /\ UNCHANGED <<reported, exitStatus>>
    /\ UNCHANGED <<mode, cmd, tasks, pos, codecVars, fileVars>>

\* interactive_mode, lines 353-357: the path typed in does not exist, and the
\* loop goes back to the menu before anything is called.
InputNotFound ==
    /\ mode = "interactive" /\ pc = "menu"
    /\ \E c \in Commands : cmd' = c
    /\ tasks' = << >> /\ pos' = 0
    /\ attempted' = {} /\ written' = {}
    /\ reported' = <<[what |-> "not_found", task |-> 0]>>
    /\ UNCHANGED <<mode, pc, exitStatus, codecVars, fileVars>>

\* choice == '0': break
Quit ==
    /\ mode = "interactive" /\ pc = "menu"
    /\ pc' = "exited"
    /\ UNCHANGED <<mode, cmd, tasks, pos, attempted, written, reported, exitStatus,
                   codecVars, fileVars>>

NextMain ==
    \/ \E c \in Commands, input \in Inputs : Dispatch(c, input)
    \/ BatchStep
    \/ BatchEnd
    \/ SingleStep
    \/ InputNotFound
    \/ Quit

SpecMain == InitMain /\ [][NextMain]_vars

(***************************************************************************)
(* Properties of the codec functions (SpecCodec).                          *)
(***************************************************************************)
LastCall == hist[Len(hist)]

BitOf(n, j) == (n \div Pow2(j)) % 2

\* C4: cipher involution.  xor_cipher returns as many bytes as it is given;
\* with the empty password it returns the data unchanged; otherwise byte i of
\* the result differs from byte i of the data exactly in the bits set in key
\* byte (i mod key length), the key starting over at the first data byte on
\* every call; and two calls with the same password give back the data.
C4_CipherInvolution ==
    /\ (Len(hist) >= 1 /\ LastCall.fn = "xor_cipher") =>
          /\ Len(val.v) = Len(LastCall.arg)
          /\ LastCall.password = << >> => val.v = LastCall.arg
          /\ LastCall.password # << >> =>
                LET key == Utf8Encode(LastCall.password)
                IN \A i \in 1..Len(val.v) : \A j \in 0..7 :
                      BitOf(val.v[i], j) =
                         (BitOf(LastCall.arg[i], j)
                            + BitOf(key[((i - 1) % Len(key)) + 1], j)) % 2
    /\ (/\ Len(hist) >= 2
        /\ LastCall.fn = "xor_cipher"
        /\ hist[Len(hist) - 1].fn = "xor_cipher"
        /\ hist[Len(hist) - 1].password = LastCall.password) =>
          val.v = hist[Len(hist) - 1].arg

\* C4 witness: a password applied twice to data longer than its key, the
\* ciphered bytes differing from the data.
C4_Witness ==
    /\ Len(hist) = 2
    /\ hist[1].fn = "xor_cipher" /\ hist[2].fn = "xor_cipher"
    /\ hist[1].password = hist[2].password
    /\ hist[1].password = <<49>>
    /\ Len(hist[1].arg) = 2
    /\ hist[2].arg # hist[1].arg
    /\ val.v = orig.v

\* C5: bit codec round trip.  bytes_to_bits gives 8 bits per byte, most
\* significant first; bits_to_bytes of that gives the bytes back; and
\* bits_to_bytes of any bit list gives floor(len / 8) bytes, byte c made of
\* bits 8c-7 .. 8c, the bits after the last full group being dropped.
C5_BitCodecRoundTrip ==
    /\ (Len(hist) >= 1 /\ LastCall.fn = "bytes_to_bits") =>
          /\ Len(val.v) = 8 * Len(LastCall.arg)
          /\ \A k \in 1..Len(LastCall.arg) : \A j \in 1..8 :
                val.v[8 * (k - 1) + j] = BitOf(LastCall.arg[k], 8 - j)
    /\ (/\ Len(hist) >= 2
        /\ LastCall.fn = "bits_to_bytes"
        /\ hist[Len(hist) - 1].fn = "bytes_to_bits") =>
          val.v = hist[Len(hist) - 1].arg
    /\ (Len(hist) >= 1 /\ LastCall.fn = "bits_to_bytes") =>
          /\ Len(val.v) = Len(LastCall.arg) \div 8
          /\ \A c \in 1..Len(val.v) : \A j \in 1..8 :
                BitOf(val.v[c], 8 - j) = LastCall.arg[8 * (c - 1) + j]
          /\ \A c \in 1..Len(val.v) : val.v[c] \in Bytes

\* C5 witness: a round trip of two bytes that are not palindromes in binary.
C5_Witness ==
    /\ Len(hist) = 2
    /\ hist[1].fn = "bytes_to_bits" /\ hist[2].fn = "bits_to_bytes"
    /\ orig.v = <<1, 128>>
    /\ hist[2].arg = <<0, 0, 0, 0, 0, 0, 0, 1, 1, 0, 0, 0, 0, 0, 0, 0>>
    /\ val.v = <<1, 128>>

(***************************************************************************)
(* Properties of the entry points (SpecMain).                              *)
(***************************************************************************)
Failing(c, ts) == {i \in 1..Len(ts) : Raises(c, ts[i])}

\* C7: batch failure isolation.  Once a batch command is over, every task of
\* its list has been processed and every failing one reported, whichever
\* entry point ran the batch; and a failed single-file hide or extract of the
\* command line is reported and ends the process with a non-zero exit status.
C7_BatchFailureIsolation ==
    /\ (cmd.name \in BatchCommands /\ pc \in {"menu", "exited"} /\ tasks # << >>) =>
          /\ attempted = 1..Len(tasks)
          /\ {reported[i].task : i \in 1..Len(reported)} = Failing(cmd, tasks)
    /\ (/\ mode = "cli"
        /\ cmd.name \in SingleCommands
        /\ attempted = {1}
        /\ Raises(cmd, tasks[1])) =>
          /\ reported # << >>
          /\ pc = "exited"
          /\ exitStatus # 0

====
